---------------------------- MODULE Spec2Model ----------------------------
(***************************************************************************)
(* hddtemp_rust (src/src_rust/src/main.rs): the smartctl output extractor  *)
(* (parse_smartctl_output, extract_temperature_from_text), the per-device  *)
(* prober (get_disk_info_and_temperature), the device lister               *)
(* (get_all_disk_devices) and main with its parallel per-device tasks.     *)
(*                                                                         *)
(* Strings the program inspects character by character are sequences of    *)
(* one-character strings; strings it only passes along (device-type hints, *)
(* status words) are TLA+ strings.                                         *)
(***************************************************************************)
EXTENDS Integers, Sequences, FiniteSets, TLC

(***************************************************************************)
(* Bounds of the model.                                                    *)
(***************************************************************************)
\* longest ata_smart_attributes.table array among the documents parsed
MaxTableLen == 2
\* most lines of a non-JSON smartctl output among the texts parsed
MaxLines == 2
\* most lines of lsblk output, hence most devices probed in parallel
MaxDevices == 3

(***************************************************************************)
(* Option<T> and the Option combinators the code uses.                     *)
(***************************************************************************)
None == [some |-> FALSE]
Some(x) == [some |-> TRUE, v |-> x]
or_else(a, b) == IF a.some THEN a ELSE b
unwrap_or(a, d) == IF a.some THEN a.v ELSE d

(***************************************************************************)
(* str: whitespace, case, substring search, integer parsing.               *)
(***************************************************************************)
Upper == <<"A","B","C","D","E","F","G","H","I","J","K","L","M","N","O","P","Q","R","S","T","U","V","W","X","Y","Z">> (* ABCDEFGHIJKLMNOPQRSTUVWXYZ *)
Lower == <<"a","b","c","d","e","f","g","h","i","j","k","l","m","n","o","p","q","r","s","t","u","v","w","x","y","z">> (* abcdefghijklmnopqrstuvwxyz *)
Digits == <<"0","1","2","3","4","5","6","7","8","9">> (* 0123456789 *)

IsWhitespace(c) == c \in {" ", "\t"}

\* char::to_lowercase on the ASCII letters
LowerOf(c) ==
  IF \E i \in 1..Len(Upper) : Upper[i] = c
    THEN Lower[CHOOSE i \in 1..Len(Upper) : Upper[i] = c]
    ELSE c

\* str::to_lowercase
to_lowercase(s) == [i \in 1..Len(s) |-> LowerOf(s[i])]

\* str::contains(pat)
contains(s, pat) ==
  \E i \in 1..(Len(s) - Len(pat) + 1) : SubSeq(s, i, i + Len(pat) - 1) = pat

\* str::starts_with(pat)
starts_with(s, pat) == Len(s) >= Len(pat) /\ SubSeq(s, 1, Len(pat)) = pat

\* str::is_empty
is_empty(s) == Len(s) = 0

\* the positions at which a run of non-whitespace starts
WordStarts(s) ==
  {i \in 1..Len(s) : ~IsWhitespace(s[i]) /\ (i = 1 \/ IsWhitespace(s[i - 1]))}

\* the last position of the run of non-whitespace that starts at i
WordEnd(s, i) ==
  CHOOSE j \in i..Len(s) :
    /\ \A k \in i..j : ~IsWhitespace(s[k])
    /\ (j = Len(s) \/ IsWhitespace(s[j + 1]))

\* the k-th smallest element of a set of positions
Kth(P, k) == CHOOSE i \in P : Cardinality({j \in P : j < i}) = k - 1

\* str::split_whitespace, collected: the maximal runs of non-whitespace
split_whitespace(s) ==
  [k \in 1..Cardinality(WordStarts(s)) |->
     LET i == Kth(WordStarts(s), k) IN SubSeq(s, i, WordEnd(s, i))]

RECURSIVE join(_, _)
\* [&str]::join(sep)
join(parts, sep) ==
  IF parts = <<>> THEN <<>>
  ELSE IF Len(parts) = 1 THEN parts[1]
  ELSE parts[1] \o sep \o join(Tail(parts), sep)

\* the positions of the line feeds
LineFeeds(s) == {i \in 1..Len(s) : s[i] = "\n"}

\* str::lines, collected: the text before each line feed, and the text
\* after the last one unless it is empty
lines(s) ==
  LET nl == LineFeeds(s)
      n == Cardinality(nl)
      last == IF n = 0 THEN 0 ELSE Kth(nl, n)
      count == IF last < Len(s) THEN n + 1 ELSE n
      from(k) == IF k = 1 THEN 1 ELSE Kth(nl, k - 1) + 1
      to(k) == IF k <= n THEN Kth(nl, k) - 1 ELSE Len(s)
  IN [k \in 1..count |-> SubSeq(s, from(k), to(k))]

DigitVal(c) == (CHOOSE i \in 1..Len(Digits) : Digits[i] = c) - 1

RECURSIVE DigitsValue(_, _)
DigitsValue(ds, acc) ==
  IF ds = <<>> THEN acc ELSE DigitsValue(Tail(ds), 10 * acc + DigitVal(ds[1]))

\* str::parse::<i64>().ok(): an optional sign, then one or more decimal
\* digits and nothing else (the tokens of the model stay far below 2^63)
parse_i64(word) ==
  LET signed == word # <<>> /\ word[1] \in {"+", "-"}
      ds == IF signed THEN Tail(word) ELSE word
  IN IF ds # <<>> /\ \A i \in 1..Len(ds) : \E j \in 1..Len(Digits) : Digits[j] = ds[i]
       THEN Some(IF signed /\ word[1] = "-" THEN 0 - DigitsValue(ds, 0)
                 ELSE DigitsValue(ds, 0))
       ELSE None

(***************************************************************************)
(* serde_json::Value: Null, String, Number (integer), Object, Array, and   *)
(* the accessors the extractor uses.                                       *)
(***************************************************************************)
Null == [t |-> "null"]
JString(s) == [t |-> "str", s |-> s]
JInt(n) == [t |-> "int", n |-> n]
JObject(f) == [t |-> "obj", o |-> f]
JArray(a) == [t |-> "arr", a |-> a]

\* Value::as_str
as_str(val) == IF val.t = "str" THEN Some(val.s) ELSE None
\* Value::as_i64
as_i64(val) == IF val.t = "int" THEN Some(val.n) ELSE None
\* Value::as_array
as_array(val) == IF val.t = "arr" THEN Some(val.a) ELSE None
\* value["key"]: Null for a missing key and for a value that is no object
Index(val, key) ==
  IF val.t = "obj" /\ key \in DOMAIN val.o THEN val.o[key] ELSE Null

(***************************************************************************)
(* Output.stdout.  What serde_json::from_str makes of the bytes is part of *)
(* the input: stdout is either bytes that decode to a JSON value, or bytes *)
(* (possibly none) that do not decode.                                     *)
(***************************************************************************)
JsonOut(doc) == [kind |-> "json", doc |-> doc]
TextOut(bytes) == [kind |-> "text", bytes |-> bytes]

\* output.stdout.is_empty()
stdout_is_empty(out) == out.kind = "text" /\ is_empty(out.bytes)

\* serde_json::from_str::<Value>(&output_str)
from_str(out) == IF out.kind = "json" THEN Some(out.doc) ELSE None

UnknownVendor == <<"U","n","k","n","o","w","n"," ","V","e","n","d","o","r">> (* Unknown Vendor *)
UnknownModel == <<"U","n","k","n","o","w","n"," ","M","o","d","e","l">> (* Unknown Model *)

\* Ok((vendor, model, temperature)) and Err(InvalidData) of the extractor
OkInfo(vendor, model, temp) ==
  [ok |-> TRUE, vendor |-> vendor, model |-> model, temp |-> temp]
ErrInvalidData == [ok |-> FALSE]

(***************************************************************************)
(* extract_temperature_from_text                                           *)
(***************************************************************************)
\* LineMentionsTemperature, had it compared the lowercased line with
\* "temperature" and "temp"
LineMentionsTemperature_AnyCase(line) ==
  contains(to_lowercase(line), <<"t","e","m","p","e","r","a","t","u","r","e">> (* temperature *)) \/ contains(to_lowercase(line), <<"t","e","m","p">> (* temp *))

\* the condition under which a line of text is searched for a number
LineMentionsTemperature(line) ==
  contains(line, <<"T","e","m","p","e","r","a","t","u","r","e">> (* Temperature *)) \/ contains(line, <<"A","i","r","f","l","o","w","_","T","e","m","p","e","r","a","t","u","r","e">> (* Airflow_Temperature *))

\* the range a number must lie in to be taken as a temperature
PlausibleTemp(t) == t > 0 /\ t < 150

RECURSIVE FindTemp(_)
\* .filter_map(|word| word.parse::<i64>().ok()).find(|&t| t > 0 && t < 150)
FindTemp(words) ==
  IF words = <<>> THEN None
  ELSE LET p == parse_i64(words[1])
       IN IF p.some /\ PlausibleTemp(p.v) THEN p ELSE FindTemp(Tail(words))

RECURSIVE ScanLines(_)
ScanLines(ls) ==
  IF ls = <<>> THEN None
  ELSE LET found == IF LineMentionsTemperature(ls[1])
                      THEN FindTemp(split_whitespace(ls[1]))
                      ELSE None
       IN IF found.some THEN found ELSE ScanLines(Tail(ls))

extract_temperature_from_text(output) == ScanLines(lines(output))

(***************************************************************************)
(* parse_smartctl_output                                                   *)
(***************************************************************************)
\* ModelField, had it looked at model_family before model_name
ModelField_FamilyFirst(json_data) ==
  unwrap_or(
    or_else(as_str(Index(json_data, "model_family")),
      or_else(as_str(Index(json_data, "model_name")),
              as_str(Index(json_data, "scsi_model_name")))),
    UnknownModel)

\* the model string before it is split: model_name, else model_family,
\* else scsi_model_name, else "Unknown Model"
ModelField(json_data) ==
  unwrap_or(
    or_else(as_str(Index(json_data, "model_name")),
      or_else(as_str(Index(json_data, "model_family")),
              as_str(Index(json_data, "scsi_model_name")))),
    UnknownModel)

\* VendorModel, had it cut the model string at the end of its first word
\* and kept the rest as it stands
VendorModel_KeepSpacing(json_data) ==
  LET vendor == unwrap_or(as_str(Index(json_data, "scsi_vendor")), <<>>)
      product == unwrap_or(as_str(Index(json_data, "scsi_product")), <<>>)
      model == ModelField(json_data)
      parts == split_whitespace(model)
      cut == WordEnd(model, Kth(WordStarts(model), 1))
  IN IF ~is_empty(vendor) /\ ~is_empty(product)
       THEN <<vendor, product>>
       ELSE <<IF parts = <<>> THEN UnknownVendor ELSE parts[1],
              IF parts = <<>> THEN <<>> ELSE SubSeq(model, cut + 2, Len(model))>>

\* (vendor_part, model_part)
VendorModel(json_data) ==
  LET vendor == unwrap_or(as_str(Index(json_data, "scsi_vendor")), <<>>)
      product == unwrap_or(as_str(Index(json_data, "scsi_product")), <<>>)
      model == ModelField(json_data)
      parts == split_whitespace(model)
  IN IF ~is_empty(vendor) /\ ~is_empty(product)
       THEN <<vendor, product>>
       ELSE <<IF parts = <<>> THEN UnknownVendor ELSE parts[1],
              IF parts = <<>> THEN <<>> ELSE join(Tail(parts), <<" ">>)>>

\* whether an attribute's name marks it as a temperature attribute
AttrNameMatches(name) ==
  contains(name, <<"t","e","m","p","e","r","a","t","u","r","e">> (* temperature *)) \/ contains(name, <<"t","e","m","p">> (* temp *))

\* AttrTemp, had it taken the plain value before the raw value
AttrTemp_PlainFirst(attr) ==
  LET name == as_str(Index(attr, "name"))
  IN IF ~name.some THEN None
     ELSE IF AttrNameMatches(to_lowercase(name.v))
       THEN or_else(as_i64(Index(attr, "value")),
                    as_i64(Index(Index(attr, "raw"), "value")))
       ELSE None

\* the filter_map closure over one entry of ata_smart_attributes.table
AttrTemp(attr) ==
  LET name == as_str(Index(attr, "name"))
  IN IF ~name.some THEN None
     ELSE IF AttrNameMatches(to_lowercase(name.v))
       THEN or_else(as_i64(Index(Index(attr, "raw"), "value")),
                    as_i64(Index(attr, "value")))
       ELSE None

RECURSIVE FirstAttrTemp(_)
\* attributes.iter().filter_map(..).next()
FirstAttrTemp(attributes) ==
  IF attributes = <<>> THEN None
  ELSE LET t == AttrTemp(attributes[1])
       IN IF t.some THEN t ELSE FirstAttrTemp(Tail(attributes))

Temperature(json_data) ==
  or_else(as_i64(Index(Index(json_data, "temperature"), "current")),
    or_else(as_i64(Index(json_data, "temperature")),
      or_else(as_i64(Index(Index(json_data, "nvme_smart_health_information_log"),
                           "temperature")),
        LET table == as_array(Index(Index(json_data, "ata_smart_attributes"), "table"))
        IN IF table.some THEN FirstAttrTemp(table.v) ELSE None)))

parse_smartctl_output(out) ==
  LET json_data == from_str(out)
  IN IF ~json_data.some
       THEN LET temp == extract_temperature_from_text(out.bytes)
            IN IF temp.some
                 THEN OkInfo(UnknownVendor, UnknownModel, Some(temp.v))
                 ELSE ErrInvalidData
       ELSE LET vm == VendorModel(json_data.v)
            IN OkInfo(vm[1], vm[2], Temperature(json_data.v))

(***************************************************************************)
(* The smartctl outputs the extractor is run on.                           *)
(***************************************************************************)
\* all sequences over S of length at most n
SeqUpTo(S, n) == UNION {[1..k -> S] : k \in 0..n}

\* the JSON object holding the fields of f that are not Null
MkObject(f) == JObject([k \in {x \in DOMAIN f : f[x] # Null} |-> f[k]])

ScsiVendorValues == {Null, JString(<<"S","E","A","G","A","T","E">> (* SEAGATE *)), JString(<<>>)}
ScsiProductValues == {Null, JString(<<"S","T","1","0","0","0","N","M">> (* ST1000NM *))}
ModelNameValues == {Null, JString(<<"W","D","C"," ","W","D","1","0","E","Z","E","X">> (* WDC WD10EZEX *)), JString(<<"S","a","m","s","u","n","g"," ","S","S","D"," "," ","8","6","0">> (* Samsung SSD  860 *))}
ModelFamilyValues ==
  {Null, JString(<<"W","e","s","t","e","r","n"," ","D","i","g","i","t","a","l"," "," ","R","e","d">> (* Western Digital  Red *)), JString(<<"H","i","t","a","c","h","i">> (* Hitachi *)), JString(<<" ">>)}
ScsiModelNameValues == {Null, JString(<<"H","G","S","T"," ","H","U","S","7","2">> (* HGST HUS72 *))}

TemperatureValues ==
  {Null, JInt(38), JObject("current" :> JInt(40)),
   JObject("current" :> JString(<<"4","0">>))}
NvmeLogValues == {Null, JObject("temperature" :> JInt(45))}

AttrEntries ==
  { JObject("name" :> JString(<<"T","e","m","p","e","r","a","t","u","r","e","_","C","e","l","s","i","u","s">> (* Temperature_Celsius *))
            @@ "raw" :> JObject("value" :> JInt(41)) @@ "value" :> JInt(59)),
    JObject("name" :> JString(<<"A","I","R","F","L","O","W","_","T","E","M","P">> (* AIRFLOW_TEMP *)) @@ "value" :> JInt(33)),
    JObject("name" :> JString(<<"T","e","m","p","_","C","a","s","e">> (* Temp_Case *))
            @@ "raw" :> JObject("string" :> JString(<<"n","/","a">> (* n/a *)))),
    JObject("name" :> JString(<<"P","o","w","e","r","_","O","n","_","H","o","u","r","s">> (* Power_On_Hours *))
            @@ "raw" :> JObject("value" :> JInt(77))),
    JObject("raw" :> JObject("value" :> JInt(50))) }

AttrTables == SeqUpTo(AttrEntries, MaxTableLen)
AttributesValues ==
  {Null} \cup {JObject("table" :> JArray(a)) : a \in AttrTables}

Document(v, p, m, f, s, t, n, a) ==
  MkObject("scsi_vendor" :> v @@ "scsi_product" :> p @@ "model_name" :> m
           @@ "model_family" :> f @@ "scsi_model_name" :> s
           @@ "temperature" :> t @@ "nvme_smart_health_information_log" :> n
           @@ "ata_smart_attributes" :> a)

\* every combination of the vendor and model fields, with and without a
\* temperature; every combination of the temperature fields, with and
\* without a model_name; and JSON values that are no objects
Documents ==
  { Document(v, p, m, f, s, t, Null, Null) :
      v \in ScsiVendorValues, p \in ScsiProductValues, m \in ModelNameValues,
      f \in ModelFamilyValues, s \in ScsiModelNameValues, t \in {Null, JInt(38)} }
  \cup
  { Document(Null, Null, m, Null, Null, t, n, a) :
      m \in {Null, JString(<<"W","D","C"," ","W","D","1","0","E","Z","E","X">> (* WDC WD10EZEX *))}, t \in TemperatureValues,
      n \in NvmeLogValues, a \in AttributesValues }
  \cup {JInt(35), JArray(<<>>), JObject("smartctl" :> JObject("exit_status" :> JInt(2)))}

TextLines ==
  { <<"1","9","4"," ","T","e","m","p","e","r","a","t","u","r","e","_","C","e","l","s","i","u","s"," ","0","x","0","0","2","2"," ","3","5"," ","(","M","i","n","/","M","a","x"," ","2","0","/","4","5",")">> (* 194 Temperature_Celsius 0x0022 35 (Min/Max 20/45) *),
    <<"t","e","m","p","e","r","a","t","u","r","e",":"," ","4","1"," ","C">> (* temperature: 41 C *),
    <<"C","u","r","r","e","n","t"," ","T","e","m","p"," ","3","8">> (* Current Temp 38 *),
    <<"A","i","r","f","l","o","w","_","T","e","m","p","e","r","a","t","u","r","e","_","C","e","l"," "," ","2","0","0"," ","0"," ","-","5"," ","1","5","0">> (* Airflow_Temperature_Cel  200 0 -5 150 *),
    <<"P","o","w","e","r","_","O","n","_","H","o","u","r","s"," ","7","7">> (* Power_On_Hours 77 *),
    <<"D","r","i","v","e"," ","T","e","m","p","e","r","a","t","u","r","e",":","\t","+","1","4","9"," ","C">> (* Drive Temperature:\t+149 C *),
    <<>> }

Texts == {join(ls, <<"\n">>) : ls \in SeqUpTo(TextLines, MaxLines)}

Outputs == {JsonOut(d) : d \in Documents} \cup {TextOut(b) : b \in Texts}

(***************************************************************************)
(* State.                                                                  *)
(***************************************************************************)
VARIABLES
  raw,        \* the stdout handed to parse_smartctl_output
  parsed,     \* what parse_smartctl_output returned for it, NotRun before
  pc,         \* where main is
  isRoot,     \* Uid::effective().is_root()
  lsblk,      \* what running lsblk gives
  devices,    \* the device paths get_all_disk_devices returned
  env,        \* per device and device type, what running smartctl may give
  task,       \* per device, the state of its par_iter task
  log,        \* per device, the smartctl invocations the prober made
  results,    \* the collected Vec of records
  stdout,     \* the lines printed to standard output
  exitCode    \* the exit status of the process, None while it runs

vars == <<raw, parsed, pc, isRoot, lsblk, devices, env, task, log, results,
          stdout, exitCode>>
mainVars == <<pc, isRoot, lsblk, devices, env, task, log, results, stdout, exitCode>>

NotRun == [ok |-> FALSE, run |-> FALSE]

(***************************************************************************)
(* The extractor on its own: one call of parse_smartctl_output.            *)
(***************************************************************************)
MainIdle ==
  /\ pc = "idle" /\ isRoot = TRUE /\ lsblk = <<>> /\ devices = <<>>
  /\ env = <<>> /\ task = <<>> /\ log = <<>> /\ results = <<>>
  /\ stdout = <<>> /\ exitCode = None

InitExtract ==
  /\ raw \in Outputs
  /\ parsed = NotRun
  /\ MainIdle

Parse ==
  /\ pc = "idle"
  /\ parsed = NotRun
  /\ parsed' = parse_smartctl_output(raw)
  /\ UNCHANGED <<raw, mainVars>>

NextExtract == Parse

SpecExtract == InitExtract /\ [][NextExtract]_vars

(***************************************************************************)
(* Running a command: Command::spawn / wait_with_output / output.          *)
(***************************************************************************)
SpawnErr == [kind |-> "spawn_err"]
WaitErr == [kind |-> "wait_err"]
CmdOutput(status, out) == [kind |-> "output", status |-> status, stdout |-> out]

(***************************************************************************)
(* get_all_disk_devices                                                    *)
(***************************************************************************)
\* format!("/dev/{}", name)
DevicePath(name) == <<"/","d","e","v","/">> (* /dev/ *) \o name

\* the filter_map closure over one line of lsblk output
DeviceOfLine(line) ==
  LET parts == split_whitespace(line)
  IN IF Len(parts) >= 2 /\ parts[2] = <<"d","i","s","k">> (* disk *)
       THEN LET device_path == DevicePath(parts[1])
            IN IF ~starts_with(device_path, <<"/","d","e","v","/","z","d">> (* /dev/zd *))
                  /\ ~starts_with(device_path, <<"/","d","e","v","/","f","d">> (* /dev/fd *))
                 THEN Some(device_path)
                 ELSE None
       ELSE None

RECURSIVE FilterMapDevices(_)
FilterMapDevices(ls) ==
  IF ls = <<>> THEN <<>>
  ELSE LET d == DeviceOfLine(ls[1])
       IN (IF d.some THEN <<d.v>> ELSE <<>>) \o FilterMapDevices(Tail(ls))

\* Ok(devices), or Err when lsblk cannot be run or exits unsuccessfully
get_all_disk_devices(cmd) ==
  IF cmd.kind # "output" THEN [ok |-> FALSE]
  ELSE IF cmd.status # 0 THEN [ok |-> FALSE]
  ELSE [ok |-> TRUE, devices |-> FilterMapDevices(lines(cmd.stdout.bytes))]

(***************************************************************************)
(* get_disk_info_and_temperature                                           *)
(***************************************************************************)
\* DEVICE_TYPES, had sat come before ata
DEVICE_TYPES_SatFirst == <<"", "sat", "ata", "scsi", "nvme">>

DEVICE_TYPES == <<"", "ata", "sat", "scsi", "nvme">>

\* the smartctl arguments of one attempt
SmartctlArgs(device_type, device) ==
  [flags |-> <<"--json", "-a">>,
   d |-> IF device_type # "" THEN <<"-d", device_type>> ELSE <<>>,
   device |-> device]

\* OutputIsInspected, had the exit status been checked as well
OutputIsInspected_OnSuccessOnly(outcome) ==
  outcome.status = 0 /\ ~stdout_is_empty(outcome.stdout)

\* whether an attempt's output is handed to parse_smartctl_output
OutputIsInspected(outcome) == ~stdout_is_empty(outcome.stdout)

\* one iteration of the loop over DEVICE_TYPES, given what running smartctl
\* gave: Some(info) when the iteration returns Ok(info), None when it
\* continues with the next device type
AttemptReturn(outcome) ==
  IF outcome.kind # "output" THEN None
  ELSE IF OutputIsInspected(outcome)
    THEN LET info == parse_smartctl_output(outcome.stdout)
         IN IF info.ok THEN Some(info) ELSE None
    ELSE None

\* Err(Other, "All attempts failed for device: {device}")
ErrAllFailed(device) ==
  [ok |-> FALSE, msg |-> <<"A","l","l"," ","a","t","t","e","m","p","t","s"," ","f","a","i","l","e","d"," ","f","o","r"," ","d","e","v","i","c","e",":"," ">> (* All attempts failed for device:  *) \o device]

NoRet == [ok |-> FALSE, pending |-> TRUE]

NoRecord == [status |-> <<>>]

(***************************************************************************)
(* main: the records of the par_iter closure and the report.               *)
(***************************************************************************)
RECURSIVE ToDigits(_)
\* the decimal digits of a natural number
ToDigits(n) ==
  IF n < 10 THEN <<Digits[n + 1]>> ELSE ToDigits(n \div 10) \o <<Digits[(n % 10) + 1]>>

\* format!("{}", t) for an i64
Display(t) == IF t < 0 THEN <<"-">> \o ToDigits(0 - t) ELSE ToDigits(t)

RECURSIVE Spaces(_)
Spaces(n) == IF n <= 0 THEN <<>> ELSE <<" ">> \o Spaces(n - 1)

\* temp.map_or("N/A", |t| format!("{:3}°C", t)): right-aligned in 3 columns
FormatTemp(temp) ==
  IF temp.some
    THEN Spaces(3 - Len(Display(temp.v))) \o Display(temp.v) \o <<"°","C">>
    ELSE <<"N","/","A">> (* N/A *)

\* the tuple of the Ok arm of the closure
OkRecord(device, info) ==
  [device |-> device, vendor |-> info.vendor, model |-> info.model,
   temp |-> FormatTemp(info.temp), status |-> <<"O","K">>]

\* the tuple of the Err arm of the closure
FailRecord(device, e) ==
  [device |-> device, vendor |-> <<"F","a","i","l","e","d">> (* Failed *), model |-> <<"F","a","i","l","e","d">> (* Failed *),
   temp |-> e.msg, status |-> <<"F","A","I","L">> (* FAIL *)]

\* String::len: the length in bytes of the UTF-8 encoding
ByteLen(s) == Len(s) + Cardinality({i \in 1..Len(s) : s[i] = "°"})

Max(a, b) == IF a >= b THEN a ELSE b

RECURSIVE MaxWidth(_, _)
\* the fold over the records for one column: the largest String::len
MaxWidth(rs, col) ==
  IF rs = <<>> THEN 0 ELSE Max(ByteLen(rs[1][col]), MaxWidth(Tail(rs), col))

\* format!("{:<width$}", s): padded on the right to width characters
PadRight(s, width) == s \o Spaces(width - Len(s))

\* one printed line of the table, as its five columns (println! puts a
\* single space between them)
TableLine(rs, d, v, m, t, st) ==
  <<PadRight(d, MaxWidth(rs, "device")), PadRight(v, MaxWidth(rs, "vendor")),
    PadRight(m, MaxWidth(rs, "model")), PadRight(t, MaxWidth(rs, "temp")), st>>

HeaderLine(rs) == TableLine(rs, <<"D","E","V","I","C","E">> (* DEVICE *), <<"V","E","N","D","O","R">> (* VENDOR *), <<"M","O","D","E","L">> (* MODEL *), <<"T","E","M","P">> (* TEMP *), <<"S","T","A","T","U","S">> (* STATUS *))
RowLine(rs, r) == TableLine(rs, r.device, r.vendor, r.model, r.temp, r.status)

Banner == <<<<"D","e","t","e","c","t","e","d"," ","d","i","s","k"," ","d","e","v","i","c","e","s",":">> (* Detected disk devices: *), <<>>>>

\* Collect, had it stopped at the first failed record
Collect_StopAtFailure(tasks) ==
  LET failed == {i \in 1..Len(tasks) : tasks[i].rec.status = <<"F","A","I","L">> (* FAIL *)}
      n == IF failed = {} THEN Len(tasks)
           ELSE (CHOOSE i \in failed : \A j \in failed : i <= j) - 1
  IN [i \in 1..n |-> tasks[i].rec]

\* collect(): the records of the tasks, in the order of the devices
Collect(tasks) == [i \in 1..Len(tasks) |-> tasks[i].rec]

\* ExitAfterReport, had a failed record made the run fail
ExitAfterReport_FailOnFailure(rs) ==
  IF \E i \in 1..Len(rs) : rs[i].status = <<"F","A","I","L">> (* FAIL *) THEN 1 ELSE 0

\* the exit status of a run that got past enumeration
ExitAfterReport(rs) == 0

(***************************************************************************)
(* What the environment may do.                                            *)
(***************************************************************************)
\* the lines lsblk -d -o NAME,TYPE -n -l may print, in its order
LsblkLines ==
  << <<"s","d","a"," ","d","i","s","k">> (* sda disk *), <<"s","d","b"," "," "," ","d","i","s","k">> (* sdb   disk *), <<"s","r","0"," ","r","o","m">> (* sr0 rom *), <<"z","d","0"," ","d","i","s","k">> (* zd0 disk *), <<"s","d","c"," ","d","i","s","k">> (* sdc disk *),
     <<"f","d","0"," ","d","i","s","k">> (* fd0 disk *), <<"s","d","d"," ","d","i","s","k">> (* sdd disk *) >>

RECURSIVE PickLines(_, _)
\* the lines of LsblkLines from position i on whose positions are in P
PickLines(P, i) ==
  IF i > Len(LsblkLines) THEN <<>>
  ELSE (IF i \in P THEN LsblkLines[i] \o <<"\n">> ELSE <<>>) \o PickLines(P, i + 1)

LsblkOutcomes ==
  {SpawnErr, CmdOutput(32, TextOut(<<>>))}
  \cup { CmdOutput(0, TextOut(PickLines(P, 1))) :
           P \in {Q \in SUBSET (1..Len(LsblkLines)) : Cardinality(Q) <= MaxDevices} }

GoodDoc ==
  Document(Null, Null, JString(<<"W","D","C"," ","W","D","1","0","E","Z","E","X">> (* WDC WD10EZEX *)), Null, Null,
           JObject("current" :> JInt(40)), Null, Null)
ScsiDoc ==
  Document(JString(<<"S","E","A","G","A","T","E">> (* SEAGATE *)), JString(<<"S","T","1","0","0","0","N","M">> (* ST1000NM *)), Null, Null, Null,
           Null, Null, Null)
EmptyOut == TextOut(<<>>)
GarbageOut == TextOut(<<"S","m","a","r","t","c","t","l"," ","o","p","e","n"," ","d","e","v","i","c","e",":"," ","f","a","i","l","e","d">> (* Smartctl open device: failed *))
SmartText == TextOut(<<"1","9","4"," ","T","e","m","p","e","r","a","t","u","r","e","_","C","e","l","s","i","u","s"," ","0","x","0","0","2","2"," ","3","5">> (* 194 Temperature_Celsius 0x0022 35 *))

\* smartctl's exit status is a bit mask; 0 and one non-zero value
ExitStatuses == {0, 4}

\* everything one smartctl invocation may give
CmdOutcomes ==
  {SpawnErr, WaitErr}
  \cup { CmdOutput(st, out) :
           st \in ExitStatuses,
           out \in {EmptyOut, GarbageOut, SmartText, JsonOut(JObject(<<>>)),
                    JsonOut(GoodDoc), JsonOut(ScsiDoc)} }

Hints == {DEVICE_TYPES[i] : i \in 1..Len(DEVICE_TYPES)}

\* a device of which every invocation may give anything
AnyDevice == [h \in Hints |-> CmdOutcomes]

\* the devices of a run of main: one smartctl reads at once, one it
\* cannot be run on, one it reports on in plain text with a non-zero exit
\* status, and one it reads only as -d sat
DeviceKinds ==
  { [h \in Hints |-> {CmdOutput(0, JsonOut(GoodDoc))}],
    [h \in Hints |-> {SpawnErr}],
    [h \in Hints |-> {CmdOutput(4, SmartText)}],
    [h \in Hints |->
       IF h = "sat" THEN {CmdOutput(4, JsonOut(ScsiDoc))}
       ELSE IF h = "" THEN {CmdOutput(2, GarbageOut)}
       ELSE {CmdOutput(2, EmptyOut)}] }

NewTask == [pc |-> "probe", next |-> 1, ret |-> NoRet, rec |-> NoRecord]

\* AfterAttempt, had a successful iteration not ended the loop before the
\* last device type
AfterAttempt_KeepGoing(t, device, r) ==
  IF r.some /\ t.next = Len(DEVICE_TYPES)
    THEN [pc |-> "done", next |-> t.next, ret |-> r.v, rec |-> OkRecord(device, r.v)]
  ELSE IF r.some
    THEN [t EXCEPT !.next = t.next + 1, !.ret = r.v]
  ELSE IF t.next < Len(DEVICE_TYPES)
    THEN [t EXCEPT !.next = t.next + 1]
  ELSE IF t.ret.ok
    THEN [pc |-> "done", next |-> t.next, ret |-> t.ret, rec |-> OkRecord(device, t.ret)]
  ELSE [pc |-> "debug", next |-> t.next, ret |-> ErrAllFailed(device),
        rec |-> NoRecord]

\* the task after one iteration of the loop whose outcome is r: return
\* Ok(info) and build the Ok record; or go on to the next device type; or,
\* after the last one, return Err and enter the Err arm of the closure
AfterAttempt(t, device, r) ==
  IF r.some
    THEN [pc |-> "done", next |-> t.next, ret |-> r.v, rec |-> OkRecord(device, r.v)]
  ELSE IF t.next < Len(DEVICE_TYPES)
    THEN [t EXCEPT !.next = t.next + 1]
  ELSE [pc |-> "debug", next |-> t.next, ret |-> ErrAllFailed(device),
        rec |-> NoRecord]

(***************************************************************************)
(* Actions.                                                                *)
(***************************************************************************)
Tasks == 1..Len(devices)

\* main, up to the call of get_all_disk_devices
CheckRoot ==
  /\ pc = "start"
  /\ IF ~isRoot
       THEN pc' = "exited" /\ exitCode' = Some(1)
       ELSE pc' = "enumerate" /\ UNCHANGED exitCode
  /\ UNCHANGED <<raw, parsed, isRoot, lsblk, devices, env, task, log, results, stdout>>

\* main, from the return of get_all_disk_devices to the start of par_iter
Enumerate ==
  /\ pc = "enumerate"
  /\ LET r == get_all_disk_devices(lsblk)
     IN IF ~r.ok
          THEN /\ pc' = "exited" /\ exitCode' = Some(1)
               /\ UNCHANGED <<devices, env, task, log, stdout>>
          ELSE IF r.devices = <<>>
            THEN /\ pc' = "exited" /\ exitCode' = Some(0)
                 /\ devices' = r.devices
                 /\ UNCHANGED <<env, task, log, stdout>>
            ELSE /\ pc' = "probing"
                 /\ devices' = r.devices
                 /\ env' \in [1..Len(r.devices) -> DeviceKinds]
                 /\ task' = [i \in 1..Len(r.devices) |-> NewTask]
                 /\ log' = [i \in 1..Len(r.devices) |-> <<>>]
                 /\ stdout' = stdout \o Banner
                 /\ UNCHANGED exitCode
  /\ UNCHANGED <<raw, parsed, isRoot, lsblk, results>>

\* one iteration of the loop of get_disk_info_and_temperature in task i,
\* with what follows it without waiting: the return and the Ok arm of the
\* closure, or the return of Err after the last device type
ProbeAttempt(i) ==
  /\ pc = "probing"
  /\ task[i].pc = "probe"
  /\ LET device == devices[i]
         device_type == DEVICE_TYPES[task[i].next]
     IN \E outcome \in env[i][device_type] :
          LET r == AttemptReturn(outcome)
          IN /\ log' = [log EXCEPT ![i] = Append(@,
                          [device_type |-> device_type,
                           args |-> SmartctlArgs(device_type, device),
                           outcome |-> outcome])]
             /\ task' = [task EXCEPT ![i] = AfterAttempt(task[i], device, r)]
  /\ UNCHANGED <<raw, parsed, pc, isRoot, lsblk, devices, env, results, stdout, exitCode>>

\* the Err arm of the closure in task i: smartctl -a is run once more for
\* the debug message, whatever it gives
DebugRawOutput(i) ==
  /\ pc = "probing"
  /\ task[i].pc = "debug"
  /\ \E outcome \in env[i][""] :
       task' = [task EXCEPT ![i] =
                  [@ EXCEPT !.pc = "done",
                             !.rec = FailRecord(devices[i], task[i].ret)]]
  /\ UNCHANGED <<raw, parsed, pc, isRoot, lsblk, devices, env, log, results, stdout, exitCode>>

\* main, from the end of par_iter to its return
Report ==
  /\ pc = "probing"
  /\ \A i \in Tasks : task[i].pc = "done"
  /\ LET rs == Collect(task)
     IN /\ results' = rs
        /\ stdout' = stdout \o <<HeaderLine(rs)>> \o [i \in 1..Len(rs) |-> RowLine(rs, rs[i])]
        /\ exitCode' = Some(ExitAfterReport(rs))
  /\ pc' = "exited"
  /\ UNCHANGED <<raw, parsed, isRoot, lsblk, devices, env, task, log>>

Init ==
  /\ raw = EmptyOut /\ parsed = NotRun
  /\ pc = "start"
  /\ isRoot \in BOOLEAN
  /\ lsblk \in LsblkOutcomes
  /\ devices = <<>> /\ env = <<>> /\ task = <<>> /\ log = <<>>
  /\ results = <<>> /\ stdout = <<>>
  /\ exitCode = None

Next ==
  \/ CheckRoot
  \/ Enumerate
  \/ \E i \in Tasks : ProbeAttempt(i)
  \/ \E i \in Tasks : DebugRawOutput(i)
  \/ Report

Spec == Init /\ [][Next]_vars

(***************************************************************************)
(* The prober on its own: get_disk_info_and_temperature("/dev/sda") on a   *)
(* device whose every smartctl invocation may give anything.               *)
(***************************************************************************)
InitProbe ==
  /\ raw = EmptyOut /\ parsed = NotRun
  /\ pc = "probing"
  /\ isRoot = TRUE
  /\ lsblk = CmdOutput(0, TextOut(PickLines({1}, 1)))
  /\ devices = <<DevicePath(<<"s","d","a">> (* sda *))>>
  /\ env = <<AnyDevice>>
  /\ task = <<NewTask>>
  /\ log = << <<>> >>
  /\ results = <<>> /\ stdout = Banner
  /\ exitCode = None

NextProbe == \E i \in Tasks : ProbeAttempt(i)

SpecProbe == InitProbe /\ [][NextProbe]_vars

(***************************************************************************)
(* Properties.                                                             *)
(***************************************************************************)
IsPrefix(a, b) == Len(a) <= Len(b) /\ SubSeq(b, 1, Len(a)) = a

\* the device-type hints task i has tried so far, in the order tried
HintsTried(i) == [k \in 1..Len(log[i]) |-> log[i][k].device_type]

\* get_disk_info_and_temperature has returned Err in task i
ProbeFailed(i) == task[i].pc \in {"debug", "done"} /\ ~task[i].ret.ok

\* what the extractor makes of one attempt: Unusable (ok = FALSE) when the
\* command did not run, printed nothing, or printed nothing usable
Extraction(outcome) ==
  IF outcome.kind = "output" /\ outcome.stdout # TextOut(<<>>)
    THEN parse_smartctl_output(outcome.stdout)
    ELSE ErrInvalidData

Usable(outcome) == Extraction(outcome).ok

FiveHintOrder == <<"", "ata", "sat", "scsi", "nvme">>
SixHintOrder == <<"", "ata", "sat", "scsi", "nvme", "sata">>

\* C1 as stated: the hints are tried in the order none, ata, sat, scsi,
\* nvme, sata, and a probe that fails has tried all six, sata last.
C1_SixHintsEndingWithSata ==
  \A i \in Tasks :
    /\ IsPrefix(HintsTried(i), SixHintOrder)
    /\ ProbeFailed(i) => HintsTried(i) = SixHintOrder

\* C1 (amended): the hints are tried one after another in the order none,
\* ata, sat, scsi, nvme, each passed to smartctl as -d <hint> (none: no
\* -d), and a probe that fails has tried exactly these five, nvme last.
C1_FiveHintsEndingWithNvme ==
  \A i \in Tasks :
    /\ IsPrefix(HintsTried(i), FiveHintOrder)
    /\ \A k \in 1..Len(log[i]) :
         /\ log[i][k].args.device = devices[i]
         /\ log[i][k].args.d =
              IF FiveHintOrder[k] = "" THEN <<>> ELSE <<"-d", FiveHintOrder[k]>>
    /\ ProbeFailed(i) =>
         /\ HintsTried(i) = FiveHintOrder
         /\ log[i][Len(log[i])].device_type = "nvme"

C1_Witness ==
  \E i \in Tasks :
    /\ ProbeFailed(i)
    /\ Len(log[i]) = 5
    /\ \A k \in 1..5 : ~Usable(log[i][k].outcome)

\* C2: the attempts before the last one made were all Unusable, and a probe
\* that returned Ok returned exactly the extraction of its last attempt,
\* vendor, model and temperature alike: the result is that of the first
\* non-Unusable attempt and no hint is tried after it.
C2_FirstUsableAttemptWins ==
  \A i \in Tasks :
    LET n == Len(log[i])
    IN /\ \A k \in 1..(n - 1) : ~Usable(log[i][k].outcome)
       /\ (n > 0 /\ Usable(log[i][n].outcome)) =>
            /\ task[i].pc = "done"
            /\ task[i].ret.ok
            /\ task[i].ret.vendor = Extraction(log[i][n].outcome).vendor
            /\ task[i].ret.model = Extraction(log[i][n].outcome).model
            /\ task[i].ret.temp = Extraction(log[i][n].outcome).temp
       /\ task[i].ret.ok => (n > 0 /\ Usable(log[i][n].outcome))

C2_Witness ==
  \E i \in Tasks :
    /\ Len(log[i]) = 2
    /\ log[i][1].device_type = "" /\ ~Usable(log[i][1].outcome)
    /\ log[i][2].device_type = "ata"
    /\ log[i][2].outcome.kind = "output"
    /\ log[i][2].outcome.stdout = JsonOut(GoodDoc)
    /\ task[i].pc = "done"
    /\ task[i].ret = parse_smartctl_output(JsonOut(GoodDoc))

RecognizedFields ==
  {"scsi_vendor", "scsi_product", "model_name", "model_family",
   "scsi_model_name", "temperature", "nvme_smart_health_information_log",
   "ata_smart_attributes"}

HasNoRecognizedField(doc) ==
  doc.t # "obj" \/ (DOMAIN doc.o) \cap RecognizedFields = {}

\* C3 as stated: a document that decodes but holds none of the recognized
\* fields is extracted as ("Unknown Vendor", "Unknown Model", no temperature).
C3_UnrecognizedDocumentGivesSentinels ==
  (parsed # NotRun /\ raw.kind = "json" /\ HasNoRecognizedField(raw.doc)) =>
    parsed = OkInfo(UnknownVendor, UnknownModel, None)

\* the record main must hold for device i, from that device's own attempts
ExpectedRecord(i) ==
  LET o == log[i][Len(log[i])].outcome
  IN IF Usable(o)
       THEN [device |-> devices[i], vendor |-> Extraction(o).vendor,
             model |-> Extraction(o).model,
             temp |-> FormatTemp(Extraction(o).temp), status |-> <<"O","K">>]
       ELSE [device |-> devices[i], vendor |-> <<"F","a","i","l","e","d">> (* Failed *), model |-> <<"F","a","i","l","e","d">> (* Failed *),
             temp |-> <<"A","l","l"," ","a","t","t","e","m","p","t","s"," ","f","a","i","l","e","d"," ","f","o","r"," ","d","e","v","i","c","e",":"," ">> (* All attempts failed for device:  *) \o devices[i],
             status |-> <<"F","A","I","L">> (* FAIL *)]

\* C4: the listed device paths are distinct, every finished task holds the
\* record its own attempts determine, and once the tasks are collected there
\* is exactly one record per device, the i-th being that of the i-th device,
\* whatever the other devices' outcomes and the interleaving.
C4_OneRecordPerDevice ==
  /\ \A i, j \in Tasks : devices[i] = devices[j] => i = j
  /\ \A i \in Tasks : task[i].pc = "done" => task[i].rec = ExpectedRecord(i)
  /\ (pc = "exited" /\ devices # <<>>) =>
       /\ Len(results) = Len(devices)
       /\ \A i \in Tasks : results[i] = ExpectedRecord(i)

C4_Witness ==
  /\ pc = "exited"
  /\ Len(devices) = 3
  /\ Len(results) = 3
  /\ Cardinality({i \in 1..3 : results[i].status = <<"O","K">>}) = 2
  /\ Cardinality({i \in 1..3 : results[i].status = <<"F","A","I","L">> (* FAIL *)}) = 1

\* get_all_disk_devices fails: lsblk cannot be run or exits unsuccessfully
EnumerationFailed == lsblk.kind # "output" \/ lsblk.status # 0

\* C5: a non-zero exit status comes only with a failed privilege check or a
\* failed enumeration, and then nothing is printed to standard output; a
\* run whose enumeration succeeded exits 0 with one row per device, a failed
\* device's row showing its message under TEMP and FAIL under STATUS.
C5_ExitStatusAndFailedRows ==
  /\ (exitCode.some /\ exitCode.v # 0) => (~isRoot \/ EnumerationFailed)
  /\ (~isRoot \/ EnumerationFailed) =>
       /\ stdout = <<>>
       /\ pc = "exited" => exitCode = Some(1)
  /\ (pc = "exited" /\ isRoot /\ ~EnumerationFailed) =>
       /\ exitCode = Some(0)
       /\ devices # <<>> =>
            /\ Len(stdout) = 3 + Len(devices)
            /\ \A i \in Tasks :
                 /\ starts_with(stdout[3 + i][1], devices[i])
                 /\ ProbeFailed(i) =>
                      /\ starts_with(stdout[3 + i][4],
                           <<"A","l","l"," ","a","t","t","e","m","p","t","s"," ","f","a","i","l","e","d"," ","f","o","r"," ","d","e","v","i","c","e",":"," ">> (* All attempts failed for device:  *) \o devices[i])
                      /\ stdout[3 + i][5] = <<"F","A","I","L">> (* FAIL *)
                 /\ ~ProbeFailed(i) => stdout[3 + i][5] = <<"O","K">>

C5_Witness ==
  /\ pc = "exited"
  /\ exitCode = Some(0)
  /\ Len(devices) >= 2
  /\ \A i \in Tasks : ProbeFailed(i)
  /\ \A i \in Tasks : stdout[3 + i][5] = <<"F","A","I","L">> (* FAIL *)

\* line k of ls mentions a temperature and its j-th word is a number
\* strictly between 0 and 150
Qualifies(ls, Mentions(_), k, j) ==
  /\ Mentions(ls[k])
  /\ LET p == parse_i64(split_whitespace(ls[k])[j])
     IN p.some /\ p.v > 0 /\ p.v < 150

\* the first qualifying word of the first line that has one
FirstQualifying(ls, Mentions(_)) ==
  LET words == UNION {{<<k, j>> : j \in 1..Len(split_whitespace(ls[k]))} :
                        k \in 1..Len(ls)}
      cand == {c \in words : Qualifies(ls, Mentions, c[1], c[2])}
      best == CHOOSE c \in cand :
                \A d \in cand : c[1] < d[1] \/ (c[1] = d[1] /\ c[2] <= d[2])
  IN IF cand = {} THEN None
     ELSE parse_i64(split_whitespace(ls[best[1]])[best[2]])

MentionsAnyCase(line) ==
  contains(to_lowercase(line), <<"t","e","m","p","e","r","a","t","u","r","e">> (* temperature *)) \/ contains(to_lowercase(line), <<"t","e","m","p">> (* temp *))

MentionsCapitalised(line) == contains(line, <<"T","e","m","p","e","r","a","t","u","r","e">> (* Temperature *))

\* the extraction of undecodable output, given which lines are searched
TextFallbackIs(Mentions(_)) ==
  LET t == FirstQualifying(lines(raw.bytes), Mentions)
  IN IF t.some
       THEN parsed = OkInfo(UnknownVendor, UnknownModel, Some(t.v))
       ELSE parsed = ErrInvalidData

\* C6 as stated: of undecodable output, the lines searched are those that
\* contain "temperature" or "temp" in any letter case.
C6_AnyCaseTextFallback ==
  (parsed # NotRun /\ raw.kind = "text") => TextFallbackIs(MentionsAnyCase)

\* C6 (amended): of undecodable output, the lines searched are those that
\* contain "Temperature" spelled exactly so; the first word of such a line
\* that is an integer strictly between 0 and 150 is the temperature, with
\* the sentinel vendor and model, and the extraction is Unusable exactly
\* when no such line has such a word.
C6_CapitalisedTextFallback ==
  (parsed # NotRun /\ raw.kind = "text") => TextFallbackIs(MentionsCapitalised)

C6_Witness ==
  /\ raw = TextOut(<<"t","e","m","p","e","r","a","t","u","r","e",":"," ","4","1"," ","C">> (* temperature: 41 C *) \o <<"\n">>
                   \o <<"1","9","4"," ","T","e","m","p","e","r","a","t","u","r","e","_","C","e","l","s","i","u","s"," ","0","x","0","0","2","2"," ","3","5"," ","(","M","i","n","/","M","a","x"," ","2","0","/","4","5",")">> (* 194 Temperature_Celsius 0x0022 35 (Min/Max 20/45) *))
  /\ parsed = OkInfo(UnknownVendor, UnknownModel, Some(35))

HasString(doc, key) ==
  doc.t = "obj" /\ key \in DOMAIN doc.o /\ doc.o[key].t = "str"

\* scsi_vendor and scsi_product are both non-empty strings
HasVendorProductPair(doc) ==
  /\ HasString(doc, "scsi_vendor") /\ doc.o["scsi_vendor"].s # <<>>
  /\ HasString(doc, "scsi_product") /\ doc.o["scsi_product"].s # <<>>

\* the words of s after the first, joined by single spaces
WithoutFirstWord(s) ==
  IF split_whitespace(s) = <<>> THEN <<>>
  ELSE join(Tail(split_whitespace(s)), <<" ">>)

\* C7 as stated: where model_name is present, the extracted model is its
\* value unchanged.
C7_ModelNameUnchanged ==
  (parsed # NotRun /\ raw.kind = "json" /\ HasString(raw.doc, "model_name")) =>
    parsed.model = raw.doc.o["model_name"].s

\* the first present of model_name, model_family, scsi_model_name, else
\* "Unknown Model"
ModelSource(doc) ==
  IF HasString(doc, "model_name") THEN doc.o["model_name"].s
  ELSE IF HasString(doc, "model_family") THEN doc.o["model_family"].s
  ELSE IF HasString(doc, "scsi_model_name") THEN doc.o["scsi_model_name"].s
  ELSE <<"U","n","k","n","o","w","n"," ","M","o","d","e","l">> (* Unknown Model *)

\* C7 (amended): the model string is the first present of model_name,
\* model_family, scsi_model_name, else "Unknown Model"; the extracted model
\* is scsi_product when scsi_vendor and scsi_product are both non-empty, and
\* otherwise the model string without its first word, the remaining words
\* joined by single spaces.
C7_ModelChainThenSplit ==
  (parsed # NotRun /\ raw.kind = "json") =>
    parsed.model =
      IF HasVendorProductPair(raw.doc) THEN raw.doc.o["scsi_product"].s
      ELSE WithoutFirstWord(ModelSource(raw.doc))

C7_Witness ==
  /\ parsed # NotRun /\ raw.kind = "json"
  /\ HasString(raw.doc, "model_name") /\ HasString(raw.doc, "model_family")
  /\ HasString(raw.doc, "scsi_model_name")
  /\ ~HasVendorProductPair(raw.doc)
  /\ raw.doc.o["model_name"].s = <<"S","a","m","s","u","n","g"," ","S","S","D"," "," ","8","6","0">> (* Samsung SSD  860 *)
  /\ parsed.model = <<"S","S","D"," ","8","6","0">> (* SSD 860 *)

\* C8: of a document with a model_family, no model_name and no
\* vendor/product pair, the vendor is the first word of the family string
\* and the model its remaining words joined by single spaces.
C8_FamilySplit ==
  ( /\ parsed # NotRun /\ raw.kind = "json"
    /\ HasString(raw.doc, "model_family")
    /\ ~HasString(raw.doc, "model_name")
    /\ ~HasVendorProductPair(raw.doc)
    /\ split_whitespace(raw.doc.o["model_family"].s) # <<>> ) =>
    LET words == split_whitespace(raw.doc.o["model_family"].s)
    IN /\ parsed.ok
       /\ parsed.vendor = words[1]
       /\ parsed.model = join(Tail(words), <<" ">>)

C8_Witness ==
  /\ parsed # NotRun /\ raw.kind = "json"
  /\ HasString(raw.doc, "model_family")
  /\ ~HasString(raw.doc, "model_name")
  /\ raw.doc.o["model_family"].s = <<"W","e","s","t","e","r","n"," ","D","i","g","i","t","a","l"," "," ","R","e","d">> (* Western Digital  Red *)
  /\ parsed.vendor = <<"W","e","s","t","e","r","n">> (* Western *)
  /\ parsed.model = <<"D","i","g","i","t","a","l"," ","R","e","d">> (* Digital Red *)

\* the document has no integer temperature.current, temperature or
\* nvme_smart_health_information_log.temperature
HasNoDirectTemperature(doc) ==
  /\ ~as_i64(Index(Index(doc, "temperature"), "current")).some
  /\ ~as_i64(Index(doc, "temperature")).some
  /\ ~as_i64(Index(Index(doc, "nvme_smart_health_information_log"), "temperature")).some

AttributesTable(doc) == Index(Index(doc, "ata_smart_attributes"), "table")

NamedLikeTemperature(entry) ==
  /\ Index(entry, "name").t = "str"
  /\ \/ contains(to_lowercase(Index(entry, "name").s), <<"t","e","m","p","e","r","a","t","u","r","e">> (* temperature *))
     \/ contains(to_lowercase(Index(entry, "name").s), <<"t","e","m","p">> (* temp *))

\* the entry's raw value, or its plain value if it has no raw value
RawElsePlain(entry) ==
  IF Index(Index(entry, "raw"), "value").t = "int"
    THEN Some(Index(Index(entry, "raw"), "value").n)
  ELSE IF Index(entry, "value").t = "int"
    THEN Some(Index(entry, "value").n)
  ELSE None

\* the value of the first entry, in array order, that is in the set M
ValueOfFirst(table, M) ==
  IF M = {} THEN None
  ELSE RawElsePlain(table[CHOOSE k \in M : \A j \in M : k <= j])

TableCase ==
  /\ parsed # NotRun /\ raw.kind = "json"
  /\ HasNoDirectTemperature(raw.doc)
  /\ AttributesTable(raw.doc).t = "arr"

\* C9 as stated: the first entry whose name matches decides, whether or not
\* it has a value; later entries are not consulted.
C9_FirstNameMatchDecides ==
  TableCase =>
    LET table == AttributesTable(raw.doc).a
    IN parsed.temp =
         ValueOfFirst(table, {k \in 1..Len(table) : NamedLikeTemperature(table[k])})

\* C9 (amended): the first entry, in array order, whose name matches and
\* which has an integer raw value or plain value decides: the temperature
\* is its raw value, or its plain value if it has no raw value; matching
\* entries without either are passed over, entries after it not consulted.
C9_FirstValuedNameMatchDecides ==
  TableCase =>
    LET table == AttributesTable(raw.doc).a
    IN parsed.temp =
         ValueOfFirst(table, {k \in 1..Len(table) :
                                /\ NamedLikeTemperature(table[k])
                                /\ RawElsePlain(table[k]).some})

C9_Witness ==
  /\ TableCase
  /\ Len(AttributesTable(raw.doc).a) = 2
  /\ Index(AttributesTable(raw.doc).a[1], "name") = JString(<<"P","o","w","e","r","_","O","n","_","H","o","u","r","s">> (* Power_On_Hours *))
  /\ Index(AttributesTable(raw.doc).a[2], "name") = JString(<<"T","e","m","p","e","r","a","t","u","r","e","_","C","e","l","s","i","u","s">> (* Temperature_Celsius *))
  /\ Index(Index(AttributesTable(raw.doc).a[2], "raw"), "value") = JInt(41)
  /\ parsed.temp = Some(41)

\* an attempt whose command gave nothing to inspect
NothingToInspect(outcome) ==
  \/ outcome.kind \in {"spawn_err", "wait_err"}
  \/ outcome.kind = "output" /\ outcome.stdout = TextOut(<<>>)

\* C10: an attempt whose command cannot be spawned or waited on, or prints
\* nothing, only moves the prober to the next hint; an attempt that printed
\* a usable output ends the probe with its extraction whatever the exit
\* status; and the probe fails only once the last hint has been tried.
C10_NoAttemptIsFatal ==
  \A i \in Tasks :
    /\ \A k \in 1..Len(log[i]) :
         LET o == log[i][k].outcome
             last == k = Len(log[i])
         IN /\ (NothingToInspect(o) /\ k < Len(DEVICE_TYPES)) =>
                 /\ last => (task[i].pc = "probe" /\ task[i].next = k + 1
                              /\ task[i].ret = NoRet)
                 /\ ~last => log[i][k + 1].device_type = DEVICE_TYPES[k + 1]
            /\ (o.kind = "output" /\ o.stdout # TextOut(<<>>)
                  /\ parse_smartctl_output(o.stdout).ok) =>
                 /\ last
                 /\ task[i].pc = "done"
                 /\ task[i].ret = parse_smartctl_output(o.stdout)
    /\ ProbeFailed(i) =>
         /\ Len(log[i]) = Len(DEVICE_TYPES)
         /\ log[i][Len(log[i])].device_type = DEVICE_TYPES[Len(DEVICE_TYPES)]

C10_Witness ==
  \E i \in Tasks :
    /\ Len(log[i]) = 4
    /\ log[i][1].outcome = SpawnErr
    /\ log[i][2].outcome = WaitErr
    /\ log[i][3].outcome = CmdOutput(4, EmptyOut)
    /\ log[i][4].outcome = CmdOutput(4, JsonOut(ScsiDoc))
    /\ task[i].pc = "done"
    /\ task[i].ret = OkInfo(<<"S","E","A","G","A","T","E">> (* SEAGATE *), <<"S","T","1","0","0","0","N","M">> (* ST1000NM *), None)

=============================================================================
